---- MODULE Spec2Model ----
(***************************************************************************)
(* SwiftShip front end (src/app.js): the supplies cart kept in             *)
(* localStorage under the key "cart", and the price estimator behind the   *)
(* quick quote and the booking page's live quote.                          *)
(*                                                                         *)
(* Units.  Money is counted in cents (1.99 is 199), weights in tenths of   *)
(* a kilogram (0.5 kg is 5), the per-kg rates in tenths of a currency      *)
(* unit (1.2 is 12) and the service multipliers in hundredths (1.35 is     *)
(* 135), so that the arithmetic of the source is integer arithmetic here.  *)
(* The source computes in IEEE doubles: where the exact price ends in half *)
(* a cent the double lies just above or just below it, and Math.round      *)
(* goes up or down accordingly.  HalfCentDown lists the inputs where it    *)
(* goes down, for weights up to 20 kg in steps of 0.1 kg; everywhere else  *)
(* in that range the double rounds as the exact value does.  A number is   *)
(* [nan, cents], so that NaN is a value.                                   *)
(*                                                                         *)
(* Text.  The value stored in localStorage is text; it is modelled as the  *)
(* sequence of its JSON tokens, so that JSON.stringify and JSON.parse are  *)
(* a printer and a parser, and a damaged value is a token sequence the     *)
(* parser rejects.                                                         *)
(***************************************************************************)
EXTENDS Integers, Sequences, FiniteSets, TLC

VARIABLES
    localStorage,   \* the slot "cart": [has |-> BOOLEAN, val |-> token sequence]
    cartItems,      \* #cartItems: the empty-cart notice or the rendered rows
    cartTotal,      \* #cartTotal: the rendered total
    cartMsg,        \* #cartMsg: the text msg() shows
    timers,         \* pending setTimeout callbacks of msg('cartMsg', ...)
    checkoutBound,  \* has the load reached addEventListener on #checkoutBtn
    last,           \* the latest call: name, arguments, storage before it, outcome
    bookingDefaults,\* the values booking.html gives the fields: what reset() restores
    bookingForm,    \* #bookingForm fields: [kg, zone, service, date, time]
    quote,          \* #quote: the live quote of the booking page
    bookOut,        \* #bookOut: the confirmation of a booking
    miniQuoteForm,  \* #miniQuote fields: [kg, zone]
    miniQuoteOut,   \* #miniQuoteOut: the quick quote of the home page
    estimate        \* the latest estimatePrice call made on its own, with its result

vars == <<localStorage, cartItems, cartTotal, cartMsg, timers, checkoutBound, last,
          bookingDefaults, bookingForm, quote, bookOut, miniQuoteForm, miniQuoteOut,
          estimate>>

cartVars == <<localStorage, cartItems, cartTotal, cartMsg, timers, checkoutBound>>
bookingVars == <<bookingDefaults, bookingForm, quote, bookOut>>
homeVars == <<miniQuoteForm, miniQuoteOut>>
quoteVars == <<bookingVars, homeVars, estimate>>

----------------------------------------------------------------------------
(* Bounds of the exploration *)

\* most units (the quantities added up) a cart is driven to
MaxUnits == 3
\* changeQty is called with d in -MaxDelta .. MaxDelta
MaxDelta == 2
\* most msg() timeouts pending at once
MaxTimers == 1
\* largest weight tried, in tenths of a kilogram
MaxWeight == 15

\* ids handed to addToCart and changeQty: two catalog ids and one that is
\* in no catalog entry
Ids == {"bx-s", "tap", "zzz"}
Deltas == (0 - MaxDelta) .. MaxDelta
Weights == 0 .. MaxWeight
\* zone and service values a form can deliver; "mars" and "drone" are keys
\* of no table and of no object, "constructor" and "toString" are keys of
\* no table that every object inherits
Zones == {"local", "regional", "national", "international", "mars", "constructor"}
Services == {"express", "standard", "economy", "drone", "toString"}
\* values of the date and time fields of the booking form
Dates == {"", "2026-01-01"}
Times == {"", "10:00"}
\* numbers makeRef() may draw
Refs == {100000000, 999999999}

Max(a, b) == IF a >= b THEN a ELSE b

----------------------------------------------------------------------------
(* Products *)

PRODUCTS == <<
    [id |-> "bx-s", name |-> "Shipping Box (Small)",  price |-> 199],
    [id |-> "bx-m", name |-> "Shipping Box (Medium)", price |-> 299],
    [id |-> "bx-l", name |-> "Shipping Box (Large)",  price |-> 449],
    [id |-> "tap",  name |-> "Packing Tape",          price |-> 249],
    [id |-> "bub",  name |-> "Bubble Wrap",           price |-> 399],
    [id |-> "lbl",  name |-> "Printed Labels (10x)",  price |-> 149] >>

ProductIds == { PRODUCTS[i].id : i \in 1 .. Len(PRODUCTS) }

\* PRODUCTS.find(x => x.id === id): the first match, found |-> FALSE for
\* undefined
FindProduct(id) ==
    LET hits == { i \in 1 .. Len(PRODUCTS) : PRODUCTS[i].id = id }
    IN  IF hits = {}
        THEN [found |-> FALSE, name |-> "", price |-> 0]
        ELSE LET i == CHOOSE k \in hits : \A j \in hits : k <= j
             IN  [found |-> TRUE, name |-> PRODUCTS[i].name,
                  price |-> PRODUCTS[i].price]

\* numbers: an amount in cents, or NaN
Cents(n) == [nan |-> FALSE, cents |-> n]
NaN == [nan |-> TRUE, cents |-> 0]

\* fmt(n): n.toLocaleString(currency USD), the amount to two decimals
fmt(n) ==
    IF n.nan THEN [text |-> "$NaN", units |-> 0, cents |-> 0]
    ELSE [text |-> "$", units |-> n.cents \div 100, cents |-> n.cents % 100]
\* the texts a quote element holds besides an amount
Dash == [text |-> "-", units |-> 0, cents |-> 0]
NoText == [text |-> "", units |-> 0, cents |-> 0]

----------------------------------------------------------------------------
(* JSON text of a cart *)

Punct(c) == [k |-> "punct", s |-> c, n |-> 0]
Str(x) == [k |-> "string", s |-> x, n |-> 0]
Num(i) == [k |-> "number", s |-> "", n |-> i]

\* {"id":"..","qty":n}
StringifyItem(it) ==
    << Punct("{"), Str("id"), Punct(":"), Str(it.id), Punct(","),
       Str("qty"), Punct(":"), Num(it.qty), Punct("}") >>

RECURSIVE StringifyItems(_)
StringifyItems(items) ==
    IF items = <<>> THEN <<>>
    ELSE IF Len(items) = 1 THEN StringifyItem(items[1])
    ELSE StringifyItem(items[1]) \o << Punct(",") >> \o StringifyItems(Tail(items))

\* JSON.stringify(items) for an array of {id, qty}
JSON_stringify(items) == << Punct("[") >> \o StringifyItems(items) \o << Punct("]") >>

\* nine tokens from position i spell one {id, qty} object
IsItemAt(t, i) ==
    /\ i + 8 <= Len(t)
    /\ t[i] = Punct("{")
    /\ t[i + 1] = Str("id")
    /\ t[i + 2] = Punct(":")
    /\ t[i + 3].k = "string"
    /\ t[i + 4] = Punct(",")
    /\ t[i + 5] = Str("qty")
    /\ t[i + 6] = Punct(":")
    /\ t[i + 7].k = "number"
    /\ t[i + 8] = Punct("}")

RECURSIVE ParseItems(_, _, _)
ParseItems(t, i, acc) ==
    IF ~IsItemAt(t, i) THEN [ok |-> FALSE, val |-> <<>>]
    ELSE LET got == Append(acc, [id |-> t[i + 3].s, qty |-> t[i + 7].n])
             j == i + 9
         IN  IF j > Len(t) THEN [ok |-> FALSE, val |-> <<>>]
             ELSE IF t[j] = Punct("]") THEN [ok |-> j = Len(t), val |-> IF j = Len(t) THEN got ELSE <<>>]
             ELSE IF t[j] = Punct(",") THEN ParseItems(t, j + 1, got)
             ELSE [ok |-> FALSE, val |-> <<>>]

\* JSON.parse(text) for the texts of this model: ok |-> FALSE is the
\* SyntaxError it throws
JSON_parse(t) ==
    IF Len(t) < 2 \/ t[1] # Punct("[") THEN [ok |-> FALSE, val |-> <<>>]
    ELSE IF t[2] = Punct("]") THEN [ok |-> Len(t) = 2, val |-> <<>>]
    ELSE ParseItems(t, 2, <<>>)

----------------------------------------------------------------------------
(* Cart in localStorage *)

Absent == [has |-> FALSE, val |-> <<>>]

\* getCart(): JSON.parse(localStorage.getItem('cart') || '[]'); a missing
\* key (null) and the empty text are falsy and read as '[]'
getCart(ls) ==
    LET text == IF ~ls.has \/ ls.val = <<>>
                THEN << Punct("["), Punct("]") >>
                ELSE ls.val
        p == JSON_parse(text)
    IN  [threw |-> ~p.ok, val |-> p.val]

\* setCart(items): the storage after localStorage.setItem('cart', ...)
setCart(items) == [has |-> TRUE, val |-> JSON_stringify(items)]

\* cart.find(x => x.id === id): index of the first line with this id, 0 for
\* undefined
FindLine(cart, id) ==
    LET hits == { i \in 1 .. Len(cart) : cart[i].id = id }
    IN  IF hits = {} THEN 0 ELSE CHOOSE k \in hits : \A j \in hits : k <= j

\* AddLine with the lookup lost: every call pushes a new line
AddLineAlwaysPush(cart, id) == Append(cart, [id |-> id, qty |-> 1])

\* AddLine with unshift in place of push: a new line goes to the front
AddLineUnshift(cart, id) ==
    LET i == FindLine(cart, id)
    IN  IF i > 0
        THEN [cart EXCEPT ![i] = [id |-> cart[i].id, qty |-> cart[i].qty + 1]]
        ELSE << [id |-> id, qty |-> 1] >> \o cart

\* the array addToCart(id) hands to setCart
AddLine(cart, id) ==
    LET i == FindLine(cart, id)
    IN  IF i > 0
        THEN [cart EXCEPT ![i] = [id |-> cart[i].id, qty |-> cart[i].qty + 1]]
        ELSE Append(cart, [id |-> id, qty |-> 1])

\* addToCart(id): the storage it leaves, threw when getCart threw
addToCart(ls, id) ==
    LET c == getCart(ls)
    IN  IF c.threw THEN [threw |-> TRUE, store |-> ls]
        ELSE [threw |-> FALSE, store |-> setCart(AddLine(c.val, id))]

\* MapQty with the id test lost: every line is adjusted
MapQtyAll(cart, id, d) ==
    [ i \in 1 .. Len(cart) |-> [id |-> cart[i].id, qty |-> Max(0, cart[i].qty + d)] ]

\* .map(it => it.id===id ? {...it, qty: Math.max(0, it.qty + d)} : it)
MapQty(cart, id, d) ==
    [ i \in 1 .. Len(cart) |->
        IF cart[i].id = id
        THEN [id |-> cart[i].id, qty |-> Max(0, cart[i].qty + d)]
        ELSE cart[i] ]

\* FilterPositive with >= in place of >
FilterNonNegative(cart) == SelectSeq(cart, LAMBDA it : it.qty >= 0)

\* .filter(it => it.qty > 0)
FilterPositive(cart) == SelectSeq(cart, LAMBDA it : it.qty > 0)

\* the array changeQty(id, d) hands to setCart
ChangeLines(cart, id, d) == FilterPositive(MapQty(cart, id, d))

\* cart.reduce((s, it) => s + p.price * it.qty, 0) over lines whose product
\* was found
RECURSIVE SumLines(_)
SumLines(cart) ==
    IF cart = <<>> THEN 0
    ELSE FindProduct(cart[1].id).price * cart[1].qty + SumLines(Tail(cart))

\* the rows renderCart() writes into #cartItems
Rows(cart) ==
    [ i \in 1 .. Len(cart) |->
        LET p == FindProduct(cart[i].id)
        IN  [id |-> cart[i].id, name |-> p.name, each |-> fmt(Cents(p.price)),
             qty |-> cart[i].qty, sub |-> fmt(Cents(p.price * cart[i].qty))] ]

NoRows == [notice |-> "", rows |-> <<>>]
EmptyNotice == [notice |-> "Your cart is empty.", rows |-> <<>>]

\* renderCart() with #cartItems and #cartTotal present: what the two
\* elements hold afterwards.  It throws when getCart throws, and when a line
\* names no product (p is undefined and p.name is read), before either
\* element is written.
renderCart(ls, items, total) ==
    LET c == getCart(ls)
    IN  IF c.threw THEN [threw |-> TRUE, items |-> items, total |-> total]
        ELSE IF Len(c.val) = 0
        THEN [threw |-> FALSE, items |-> EmptyNotice, total |-> fmt(Cents(0))]
        ELSE IF \E i \in 1 .. Len(c.val) : ~FindProduct(c.val[i].id).found
        THEN [threw |-> TRUE, items |-> items, total |-> total]
        ELSE [threw |-> FALSE, items |-> [notice |-> "", rows |-> Rows(c.val)],
              total |-> fmt(Cents(SumLines(c.val)))]

MsgEmpty == "Your cart is empty."
MsgPlaced == "Order placed! Confirmation sent to your email."

\* the record kept of a call
Call(op, id, d, before, ret, threw) ==
    [op |-> op, id |-> id, d |-> d, before |-> before, ret |-> ret, threw |-> threw]

----------------------------------------------------------------------------
(* Supplies page *)

\* DOMContentLoaded on supplies.html over the storage ls: renderProducts(),
\* renderCart(), then the #checkoutBtn listener, which is not reached when
\* renderCart throws
Boot(ls) ==
    LET r == renderCart(ls, NoRows, NoText)
    IN  [items |-> r.items, total |-> r.total, bound |-> ~r.threw,
         last |-> Call("load", "", 0, ls, <<>>, r.threw)]

\* the page is loaded again over the storage as it is
Reload ==
    \E b \in {Boot(localStorage)} :
        /\ cartItems' = b.items
        /\ cartTotal' = b.total
        /\ cartMsg' = ""
        /\ timers' = 0
        /\ checkoutBound' = b.bound
        /\ last' = b.last
        /\ UNCHANGED <<localStorage, quoteVars>>

\* the quantities of a cart added up
RECURSIVE Units(_)
Units(cart) == IF cart = <<>> THEN 0 ELSE cart[1].qty + Units(Tail(cart))

\* click on an "Add to cart" button, or the same two calls made directly:
\* addToCart(id); renderCart()
AddToCart(id) ==
    \E a \in {addToCart(localStorage, id)} :
    \E r \in {renderCart(a.store, cartItems, cartTotal)} :
        /\ Units(getCart(a.store).val) <= MaxUnits
        /\ localStorage' = a.store
        /\ cartItems' = IF a.threw THEN cartItems ELSE r.items
        /\ cartTotal' = IF a.threw THEN cartTotal ELSE r.total
        /\ last' = Call("addToCart", id, 0, localStorage, <<>>, a.threw \/ r.threw)
        /\ UNCHANGED <<cartMsg, timers, checkoutBound, quoteVars>>

\* changeQty(id, d): getCart, map, filter, setCart, renderCart
changeQty(ls, items, total, id, d) ==
    LET c == getCart(ls)
        store == setCart(ChangeLines(c.val, id, d))
        r == renderCart(store, items, total)
    IN  IF c.threw
        THEN [threw |-> TRUE, store |-> ls, items |-> items, total |-> total]
        ELSE [threw |-> r.threw, store |-> store, items |-> r.items, total |-> r.total]

ChangeQty(id, d) ==
    \E r \in {changeQty(localStorage, cartItems, cartTotal, id, d)} :
        /\ Units(getCart(r.store).val) <= MaxUnits
        /\ localStorage' = r.store
        /\ cartItems' = r.items
        /\ cartTotal' = r.total
        /\ last' = Call("changeQty", id, d, localStorage, <<>>, r.threw)
        /\ UNCHANGED <<cartMsg, timers, checkoutBound, quoteVars>>

\* checkout with the emptiness test lost
checkoutAlways(ls, items, total) ==
    LET c == getCart(ls)
        r == renderCart(setCart(<<>>), items, total)
    IN  IF c.threw
        THEN [threw |-> TRUE, store |-> ls, items |-> items, total |-> total, text |-> ""]
        ELSE [threw |-> r.threw, store |-> setCart(<<>>), items |-> r.items,
              total |-> r.total, text |-> IF r.threw THEN "" ELSE MsgPlaced]

\* the #checkoutBtn click handler: the storage, the two elements and the
\* message it leaves; text "" when msg() was not reached
checkout(ls, items, total) ==
    LET c == getCart(ls)
        r == renderCart(setCart(<<>>), items, total)
    IN  IF c.threw
        THEN [threw |-> TRUE, store |-> ls, items |-> items, total |-> total, text |-> ""]
        ELSE IF Len(c.val) = 0
        THEN [threw |-> FALSE, store |-> ls, items |-> items, total |-> total,
              text |-> MsgEmpty]
        ELSE [threw |-> r.threw, store |-> setCart(<<>>), items |-> r.items,
              total |-> r.total, text |-> IF r.threw THEN "" ELSE MsgPlaced]

\* click on #checkoutBtn; msg() sets the text and arms a timeout
Checkout ==
    \E r \in {checkout(localStorage, cartItems, cartTotal)} :
        /\ checkoutBound
        /\ timers < MaxTimers
        /\ localStorage' = r.store
        /\ cartItems' = r.items
        /\ cartTotal' = r.total
        /\ cartMsg' = IF r.text = "" THEN cartMsg ELSE r.text
        /\ timers' = IF r.text = "" THEN timers ELSE timers + 1
        /\ last' = Call("checkout", "", 0, localStorage, <<>>, r.threw)
        /\ UNCHANGED <<checkoutBound, quoteVars>>

\* a timeout armed by msg() fires: el.textContent = ''
MsgTimeout ==
    /\ timers > 0
    /\ cartMsg' = ""
    /\ timers' = timers - 1
    /\ last' = Call("timeout", "", 0, localStorage, <<>>, FALSE)
    /\ UNCHANGED <<localStorage, cartItems, cartTotal, checkoutBound, quoteVars>>

\* getCart() called on its own
GetCart ==
    \E c \in {getCart(localStorage)} :
        /\ last' = Call("getCart", "", 0, localStorage, c.val, c.threw)
        /\ UNCHANGED <<cartVars, quoteVars>>

----------------------------------------------------------------------------
(* Pricing engine *)

ZoneBase == [local |-> 6, regional |-> 12, national |-> 22, international |-> 48]
PerKg == [local |-> 12, regional |-> 18, national |-> 24, international |-> 45]
Svc == [express |-> 135, standard |-> 100, economy |-> 85]

\* the property names an object literal inherits from Object.prototype
ObjectPrototypeKeys ==
    { "constructor", "toString", "toLocaleString", "valueOf", "hasOwnProperty",
      "isPrototypeOf", "propertyIsEnumerable", "__proto__", "__defineGetter__",
      "__defineSetter__", "__lookupGetter__", "__lookupSetter__" }

\* {...}[key] ?? dflt: an own key gives its number, an inherited one gives
\* the function or object found there (num |-> FALSE: the default is not
\* taken), any other key gives undefined and so the default
Lookup(table, key, dflt) ==
    IF key \in DOMAIN table THEN [num |-> TRUE, v |-> table[key]]
    ELSE IF key \in ObjectPrototypeKeys THEN [num |-> FALSE, v |-> 0]
    ELSE [num |-> TRUE, v |-> dflt]

\* the i-th parameter of a call with the arguments args: an argument left
\* out takes the default
Default(args, i, dflt) == IF Len(args) >= i THEN args[i] ELSE dflt

\* <<zoneBase, perKg, svc, billable weight>> at which the exact price ends
\* in half a cent and the double computed for price * 100 lies below it
HalfCentDown ==
    { <<12, 18, 85, 55>>, <<12, 18, 85, 135>>,
      <<48, 45, 135, 86>>, <<48, 45, 135, 182>>,
      <<48, 45, 85, 14>>, <<48, 45, 85, 38>>, <<48, 45, 85, 58>>,
      <<48, 45, 85, 78>>, <<48, 45, 85, 86>>, <<48, 45, 85, 90>>,
      <<48, 45, 85, 106>>, <<48, 45, 85, 118>>, <<48, 45, 85, 126>>,
      <<48, 45, 85, 162>>, <<48, 45, 85, 174>>, <<48, 45, 85, 182>> }

\* Math.round(price * 100) for price = (zoneBase + perKg * w) * svc, in cents
RoundPrice(zoneBase, perKg, svc, w) ==
    LET n == (zoneBase * 100 + perKg * w) * svc
    IN  IF <<zoneBase, perKg, svc, w>> \in HalfCentDown
        THEN n \div 100
        ELSE (n + 50) \div 100

\* estimatePrice(kg=1, zone='local', service='standard') called with the
\* arguments args; kg in tenths of a kilogram.  Arithmetic on a value that
\* is no number gives NaN, and Math.max(5, NaN) is NaN.
estimatePrice(args) ==
    LET kg == Default(args, 1, 10)
        zone == Default(args, 2, "local")
        service == Default(args, 3, "standard")
        zoneBase == Lookup(ZoneBase, zone, 12)
        perKg == Lookup(PerKg, zone, 18)
        svc == Lookup(Svc, service, 100)
    IN  IF zoneBase.num /\ perKg.num /\ svc.num
        THEN Cents(Max(500, RoundPrice(zoneBase.v, perKg.v, svc.v, Max(5, kg))))
        ELSE NaN

\* estimatePrice called on its own
EstimatePrice(args) ==
    /\ estimate' = [args |-> args, price |-> estimatePrice(args)]
    /\ UNCHANGED <<cartVars, last, bookingVars, homeVars>>

----------------------------------------------------------------------------
(* Home page *)

\* #miniQuote submit: estimatePrice(Number(f.get('kg')), f.get('zone'))
miniQuote(f) == fmt(estimatePrice(<< f.kg, f.zone >>))

\* the visitor fills in the quick quote form; nothing listens
MiniInput(f) ==
    /\ f # miniQuoteForm
    /\ miniQuoteForm' = f
    /\ UNCHANGED <<cartVars, last, bookingVars, miniQuoteOut, estimate>>

\* the quick quote form is submitted
MiniQuote ==
    /\ miniQuoteOut' = miniQuote(miniQuoteForm)
    /\ UNCHANGED <<cartVars, last, bookingVars, miniQuoteForm, estimate>>

MiniForms == [kg : Weights, zone : Zones]

----------------------------------------------------------------------------
(* Booking page *)

\* #bookingForm input listener over the form f: the text of #quote
liveQuote(f) == IF f.kg > 0 THEN fmt(estimatePrice(<< f.kg, f.zone >>)) ELSE Dash

Fields == {"kg", "zone", "service", "date", "time"}

\* the values the field x may be given
FieldValues(x) ==
    CASE x = "kg" -> Weights
      [] x = "zone" -> Zones
      [] x = "service" -> Services
      [] x = "date" -> Dates
      [] x = "time" -> Times

\* an input event: the field x of the form has the new value v
BookingInput(x, v) ==
    /\ v # bookingForm[x]
    /\ bookingForm' = [bookingForm EXCEPT ![x] = v]
    /\ quote' = liveQuote(bookingForm')
    /\ last' = Call("bookingInput", "", 0, localStorage, <<>>, FALSE)
    /\ UNCHANGED <<cartVars, bookingDefaults, bookOut, homeVars, estimate>>

NotBooked == [text |-> "", date |-> "", time |-> "", ref |-> 0]

\* #bookingForm submit listener: the confirmation with the date and time
\* entered and the number makeRef() drew, bookingForm.reset(), the dash
BookingSubmit(ref) ==
    /\ bookOut' = [text |-> "Booked!", date |-> bookingForm.date,
                   time |-> bookingForm.time, ref |-> ref]
    /\ bookingForm' = bookingDefaults
    /\ quote' = Dash
    /\ last' = Call("bookingSubmit", "", 0, localStorage, <<>>, FALSE)
    /\ UNCHANGED <<cartVars, bookingDefaults, homeVars, estimate>>

\* the field values booking.html may give: the weight empty or 1 kg
DefaultForms ==
    { [kg |-> k, zone |-> "local", service |-> "standard", date |-> "", time |-> ""] :
        k \in {0, 10} }

----------------------------------------------------------------------------
(* Specifications *)

\* the booking and home pages before any event: the fields hold what the
\* page gives them, the load writes no element, and #quote holds what the
\* page puts there, nothing or the dash
InitQuote(defaults, text) ==
    /\ bookingDefaults = defaults
    /\ bookingForm = defaults
    /\ quote = text
    /\ bookOut = NotBooked
    /\ miniQuoteForm = [kg |-> 0, zone |-> "local"]
    /\ miniQuoteOut = NoText
    /\ estimate = [args |-> <<>>, price |-> estimatePrice(<<>>)]

\* supplies.html loaded over the storage ls
InitCart(ls) ==
    \E b \in {Boot(ls)} :
        /\ localStorage = ls
        /\ cartItems = b.items
        /\ cartTotal = b.total
        /\ cartMsg = ""
        /\ timers = 0
        /\ checkoutBound = b.bound
        /\ last = b.last

\* the other pages, left as loaded
InitIdle ==
    InitQuote([kg |-> 0, zone |-> "local", service |-> "standard",
               date |-> "", time |-> ""], NoText)

\* the supplies page, first loaded with no cart stored or an empty one
Init ==
    /\ \E ls \in {Absent, setCart(<<>>)} : InitCart(ls)
    /\ InitIdle

Next ==
    \/ \E id \in Ids : AddToCart(id)
    \/ \E id \in Ids, d \in Deltas : ChangeQty(id, d)
    \/ Checkout
    \/ MsgTimeout
    \/ GetCart
    \/ Reload

Spec == Init /\ [][Next]_vars

\* a text cut short: the proper, non-empty prefixes of t
Truncations(t) == { SubSeq(t, 1, n) : n \in 1 .. Len(t) - 1 }

SampleCarts ==
    { <<>>,
      << [id |-> "bx-s", qty |-> 1] >>,
      << [id |-> "tap", qty |-> 2], [id |-> "bx-s", qty |-> 1] >> }

\* what a load may find under the key "cart": nothing, the empty text, the
\* text of a cart, or such a text cut short
Stored ==
    {Absent, [has |-> TRUE, val |-> <<>>]}
        \cup { setCart(c) : c \in SampleCarts }
        \cup { [has |-> TRUE, val |-> t] :
                  t \in UNION { Truncations(JSON_stringify(c)) : c \in SampleCarts } }

\* the supplies page, loaded over whatever the storage holds
InitAnyStore ==
    /\ \E ls \in Stored : InitCart(ls)
    /\ InitIdle

SpecAnyStore == InitAnyStore /\ [][Next]_vars

\* the home and booking pages: the cart is not touched
InitBooking ==
    /\ InitCart(Absent)
    /\ \E defaults \in DefaultForms, text \in {NoText, Dash} : InitQuote(defaults, text)

NextBooking ==
    \/ \E x \in Fields : \E v \in FieldValues(x) : BookingInput(x, v)
    \/ \E ref \in Refs : BookingSubmit(ref)

SpecBooking == InitBooking /\ [][NextBooking]_vars

NextHome ==
    \/ \E f \in MiniForms : MiniInput(f)
    \/ MiniQuote

SpecHome == InitBooking /\ [][NextHome]_vars

\* the argument lists of a call: all three, or the trailing ones left out
ArgLists ==
    {<<>>} \cup { <<kg>> : kg \in Weights }
        \cup { <<kg, zone>> : kg \in Weights, zone \in Zones }
        \cup { <<kg, zone, service>> : kg \in Weights, zone \in Zones,
                                        service \in Services }

\* estimatePrice called with every argument, or with some left out
NextQuote == \E args \in ArgLists : EstimatePrice(args)

SpecQuote == InitBooking /\ [][NextQuote]_vars

----------------------------------------------------------------------------
(* Properties *)

\* the cart now persisted, and the cart the latest call found
cartNow == getCart(localStorage).val
cartBefore == getCart(last.before).val

\* the lines of a cart that are not for id, in order
Others(cart, id) == SelectSeq(cart, LAMBDA it : it.id # id)

\* C1: from an absent or empty stored cart, whatever addToCart, changeQty
\* and checkout calls are made, the persisted cart can be read and holds at
\* most one line per product id.
C1_OneLinePerProduct ==
    /\ ~getCart(localStorage).threw
    /\ \A i, j \in 1 .. Len(cartNow) : cartNow[i].id = cartNow[j].id => i = j

\* addToCart has just been called a second time for the only product of
\* the cart
C1_Witness ==
    /\ last.op = "addToCart"
    /\ cartBefore = << [id |-> last.id, qty |-> 1] >>
    /\ cartNow = << [id |-> last.id, qty |-> 2] >>

\* C2: from an absent or empty stored cart, whatever addToCart, changeQty
\* (d of either sign) and checkout calls are made, every persisted line has
\* a quantity of at least 1.
C2_QuantityAtLeastOne ==
    \A i \in 1 .. Len(cartNow) : cartNow[i].qty \in Nat /\ cartNow[i].qty >= 1

\* changeQty has just taken a line below zero, and the line is gone
C2_Witness ==
    /\ last.op = "changeQty"
    /\ FindLine(cartBefore, last.id) > 0
    /\ cartBefore[FindLine(cartBefore, last.id)].qty + last.d < 0
    /\ FindLine(cartNow, last.id) = 0

\* C3: getCart() returns the empty sequence and does not throw, both when
\* nothing is stored under "cart" and when what is stored does not parse.
C3_GetCartFailsOpen ==
    (/\ last.op = "getCart"
     /\ ~last.before.has \/ ~JSON_parse(last.before.val).ok)
        => ~last.threw /\ last.ret = <<>>

\* C4: checkout on a non-empty cart leaves the empty cart persisted and
\* shows the order-placed message; on an empty cart it shows the
\* cart-is-empty message and writes nothing.
C4_Checkout ==
    last.op = "checkout" =>
        IF Len(cartBefore) > 0
        THEN /\ localStorage = [has |-> TRUE, val |-> << Punct("["), Punct("]") >>]
             /\ cartNow = <<>>
             /\ cartMsg = MsgPlaced
        ELSE /\ localStorage = last.before
             /\ cartMsg = MsgEmpty
             /\ cartMsg # MsgPlaced

\* checkout has just cleared a cart of two lines or more
C4_Witness ==
    /\ last.op = "checkout"
    /\ Len(cartBefore) >= 2
    /\ cartMsg = MsgPlaced
    /\ cartNow = <<>>

\* price times quantity over the lines whose product is in the catalog
RECURSIVE KnownTotal(_)
KnownTotal(cart) ==
    IF cart = <<>> THEN 0
    ELSE (IF cart[1].id \in ProductIds
          THEN FindProduct(cart[1].id).price * cart[1].qty ELSE 0)
         + KnownTotal(Tail(cart))

\* C5: the total shown after the cart is rendered is the sum of price times
\* quantity over its lines, a line of an unknown product adds nothing, and
\* rendering does not throw.
C5_TotalSkipsUnknown ==
    last.op \in {"addToCart", "changeQty"} =>
        /\ ~last.threw
        /\ cartTotal = fmt(Cents(KnownTotal(cartNow)))

\* C6: every persisted line names a product of PRODUCTS, whatever id was
\* handed to addToCart.
C6_LinesReferenceCatalog ==
    \A i \in 1 .. Len(cartNow) : cartNow[i].id \in ProductIds

\* the price the claim states, in cents: the tables with their fallbacks
\* written out, any key that is in no table being unknown
C7_Price(kg, zone, service) ==
    LET base == CASE zone = "local" -> 6 [] zone = "regional" -> 12
                  [] zone = "national" -> 22 [] zone = "international" -> 48
                  [] OTHER -> 12
        rate == CASE zone = "local" -> 12 [] zone = "regional" -> 18
                  [] zone = "national" -> 24 [] zone = "international" -> 45
                  [] OTHER -> 18
        mult == CASE service = "express" -> 135 [] service = "standard" -> 100
                  [] service = "economy" -> 85 [] OTHER -> 100
        billable == IF kg < 5 THEN 5 ELSE kg
        rounded == RoundPrice(base, rate, mult, billable)
    IN  IF rounded < 500 THEN 500 ELSE rounded

\* C7: for every weight >= 0 and every zone and service, known or not,
\* estimatePrice returns at least 5, and what it returns is
\* max(5, (base + perKg * max(0.5, weight)) * multiplier to 2 decimals) with
\* base 12 and perKg 1.8 for an unknown zone and multiplier 1.0 for an
\* unknown service.
C7_PriceAtLeastFive ==
    Len(estimate.args) = 3 =>
        /\ ~estimate.price.nan
        /\ estimate.price.cents >= 500
        /\ estimate.price.cents =
              C7_Price(estimate.args[1], estimate.args[2], estimate.args[3])

\* C8: addToCart(id) persists the cart it found with the quantity of the
\* line for id raised by 1 when there is one, and with a line {id, qty: 1}
\* appended when there is none; every other line keeps its place, id and
\* quantity.
C8_AddToCart ==
    last.op = "addToCart" =>
        /\ localStorage.has
        /\ ~getCart(localStorage).threw
        /\ IF FindLine(cartBefore, last.id) > 0
           THEN /\ Len(cartNow) = Len(cartBefore)
                /\ \A k \in 1 .. Len(cartBefore) :
                      /\ cartNow[k].id = cartBefore[k].id
                      /\ cartNow[k].qty =
                            IF cartBefore[k].id = last.id
                            THEN cartBefore[k].qty + 1 ELSE cartBefore[k].qty
           ELSE /\ Len(cartNow) = Len(cartBefore) + 1
                /\ SubSeq(cartNow, 1, Len(cartBefore)) = cartBefore
                /\ cartNow[Len(cartNow)] = [id |-> last.id, qty |-> 1]

\* addToCart has just added a third line behind two others
C8_Witness ==
    /\ last.op = "addToCart"
    /\ Len(cartBefore) = 2
    /\ FindLine(cartBefore, last.id) = 0
    /\ Len(cartNow) = 3
    /\ cartNow[3].id = last.id

\* C9: changeQty(id, d) sets the quantity of the line for id to
\* max(0, qty + d) and drops the line when that is 0; the other lines keep
\* their id, quantity and order; with no line for id the cart is unchanged.
C9_ChangeQty ==
    last.op = "changeQty" =>
        LET i == FindLine(cartBefore, last.id)
            q == IF i > 0 THEN cartBefore[i].qty + last.d ELSE 0
        IN  /\ Others(cartNow, last.id) = Others(cartBefore, last.id)
            /\ i = 0 => cartNow = cartBefore
            /\ (i > 0 /\ q <= 0) => FindLine(cartNow, last.id) = 0
            /\ (i > 0 /\ q > 0) =>
                  /\ Len(cartNow) = Len(cartBefore)
                  /\ cartNow[i] = [id |-> last.id, qty |-> q]

\* changeQty has just dropped the middle line of three, taking it below 0
C9_Witness ==
    /\ last.op = "changeQty"
    /\ Len(cartBefore) = 3
    /\ cartBefore[2].id = last.id
    /\ cartBefore[2].qty + last.d < 0
    /\ cartNow = << cartBefore[1], cartBefore[3] >>

\* C10: after an input event with a weight entered, the live quote of the
\* booking page is estimatePrice(kg, zone, service) for the service
\* selected in the form.
C10_LiveQuoteUsesService ==
    (last.op = "bookingInput" /\ bookingForm.kg > 0) =>
        quote = fmt(estimatePrice(
                    << bookingForm.kg, bookingForm.zone, bookingForm.service >>))

====
